---- MODULE Spec2Model ----
(***************************************************************************)
(* Model of the synchronization engine of EnterpriseWeatherApp             *)
(* (src/src/App.js): fetch with timeout, retry with exponential backoff,   *)
(* the offline cache in localStorage, the bounded history, the alert       *)
(* evaluation and the triggers that start a fetch.                         *)
(*                                                                         *)
(* JavaScript values are tagged records (JsNum, JsStr, JsUndef, JsNull) so *)
(* that truthiness and the comparison operators can be modelled as the     *)
(* language defines them.  Temperatures are kept in tenths of a degree so  *)
(* that Math.round is not the identity.  A value that may be null is a     *)
(* sequence of length 0 (null) or 1.                                       *)
(***************************************************************************)
EXTENDS Integers, Sequences, FiniteSets, TLC

(* ------------------------------------------------------------------ *)
(* Bounds of the model                                                  *)
(* ------------------------------------------------------------------ *)
\* transport invocations in one run of the main specification
MaxApiCalls == 3
\* appends made by the history specification beyond MAX_HISTORY_ENTRIES
MaxExtraAppends == 3
\* Notification objects constructed in one run
MaxNotifications == 2

(* ------------------------------------------------------------------ *)
(* Program constants                                                    *)
(* ------------------------------------------------------------------ *)
maxRetries == 3
OFFLINE_RETENTION == 24 * 60 * 60 * 1000
MAX_HISTORY_ENTRIES == 100
CACHE_DURATION == 5 * 60 * 1000
\* temperatures of the model are tenths of a degree
Tenths == 10
alertThresholds ==
  [temperature |-> [min |-> -10, max |-> 40],
   windSpeed |-> 15,
   humidity |-> 80,
   pressure |-> [min |-> 980, max |-> 1030]]

(* ------------------------------------------------------------------ *)
(* JavaScript values                                                    *)
(* ------------------------------------------------------------------ *)
JsUndef == [t |-> "undefined", n |-> 0, s |-> ""]
JsNull == [t |-> "null", n |-> 0, s |-> ""]
JsNum(x) == [t |-> "number", n |-> x, s |-> ""]
JsStr(x) == [t |-> "string", n |-> 0, s |-> x]

\* ToBoolean: what `a && b` and `if (a)` test
Truthy(v) ==
  CASE v.t = "number" -> v.n # 0
    [] v.t = "string" -> v.s # ""
    [] OTHER -> FALSE

\* null of a nullable value, and the wrapped value
Null == <<>>
Some(x) == <<x>>

\* ToNumber for the relational operators; NaN is Null.  The strings of the
\* model are not numerals, so only the empty string converts to a number.
ToNumber(v) ==
  CASE v.t = "number" -> Some(v.n)
    [] v.t = "null" -> Some(0)
    [] v.t = "string" -> IF v.s = "" THEN Some(0) ELSE Null
    [] OTHER -> Null

\* a comparison that reads a value that is no number as 0
JsLessAbsentAsZero(v, b) == IF ToNumber(v) = Null THEN 0 < b ELSE ToNumber(v)[1] < b

\* a < b and a > b of JavaScript, b a number: false when a converts to NaN
JsLess(v, b) == ToNumber(v) # Null /\ ToNumber(v)[1] < b
JsGreater(v, b) == ToNumber(v) # Null /\ ToNumber(v)[1] > b

\* Math.round of a value in tenths: the nearest integer, halves rounded up
MathRound(x) == (x + 5) \div Tenths

(* ------------------------------------------------------------------ *)
(* Response payloads                                                    *)
(* ------------------------------------------------------------------ *)
\* The fields of a weather object that the engine reads:
\*   temp = main.temp (tenths), main = weather[0].main,
\*   description = weather[0].description, name, wind = wind.speed,
\*   humidity = main.humidity, pressure = main.pressure
Payload(temp, main, description, name, wind, humidity, pressure) ==
  [temp |-> temp, main |-> main, description |-> description, name |-> name,
   wind |-> wind, humidity |-> humidity, pressure |-> pressure]

Mild ==
  Payload(JsNum(253), JsStr("Clear"), JsStr("clear sky"), JsStr("Manila"),
          JsNum(3), JsNum(60), JsNum(1010))
Freezing ==
  Payload(JsNum(0), JsStr("Snow"), JsStr("light snow"), JsStr("Oslo"),
          JsNum(3), JsNum(60), JsNum(1010))

\* 45 degrees: above the maximum of the temperature thresholds
Hot ==
  Payload(JsNum(450), JsStr("Clear"), JsStr("clear sky"), JsStr("Manila"),
          JsNum(3), JsNum(60), JsNum(1010))

\* a valid payload without the optional fields
Sparse ==
  Payload(JsNum(450), JsStr("Clear"), JsUndef, JsStr("Manila"),
          JsUndef, JsUndef, JsUndef)

\* the response bodies the transport delivers in the main specification
Payloads == {Mild, Sparse, Freezing}

\* validation that looks at the location name alone
validateWeatherDataNameOnly(data) == Truthy(data.name)

\* Weather data validation
validateWeatherData(data) ==
  Truthy(data.temp) /\ Truthy(data.main) /\ Truthy(data.name)

\* number of characters JSON.stringify gives a value (0: the key is omitted)
Digits(x) == IF x < 10 THEN 1 ELSE IF x < 100 THEN 2 ELSE IF x < 1000 THEN 3 ELSE 4
StrLen(x) ==
  CASE x = "" -> 0
    [] x = "Clear" -> 5
    [] x = "Snow" -> 4
    [] x = "Oslo" -> 4
    [] x = "Manila" -> 6
    [] x = "clear sky" -> 9
    [] x = "light snow" -> 10
    [] OTHER -> 3
JsonLen(v) ==
  CASE v.t = "number" -> IF v.n < 0 THEN 1 + Digits(-v.n) ELSE Digits(v.n)
    [] v.t = "string" -> StrLen(v.s) + 2
    [] v.t = "null" -> 4
    [] OTHER -> 0
\* JSON.stringify(weatherData).length
ResponseSize(data) ==
  JsonLen(data.temp) + JsonLen(data.main) + JsonLen(data.description)
    + JsonLen(data.name) + JsonLen(data.wind) + JsonLen(data.humidity)
    + JsonLen(data.pressure)

(* ------------------------------------------------------------------ *)
(* Weather alerts system                                                *)
(* ------------------------------------------------------------------ *)
\* the number a message shows: `${Math.round(temp)}` or `${value}`
Shown(v) == IF v.t = "number" THEN v ELSE JsStr("NaN")
Rounded(v) == IF v.t = "number" THEN JsNum(MathRound(v.n)) ELSE JsStr("NaN")

Alert(type, text, value) == [type |-> type, text |-> text, value |-> value]

\* the evaluation with the heat check at, not above, the maximum
checkWeatherAlertsFromMax(weatherData) ==
  LET temp == weatherData.temp
      windSpeed == IF Truthy(weatherData.wind) THEN weatherData.wind ELSE JsNum(0)
      humidity == weatherData.humidity
      pressure == weatherData.pressure
      th == alertThresholds
      a0 == <<>>
      a1 == IF JsLess(temp, th.temperature.min * Tenths)
              THEN Append(a0, Alert("cold", "Extreme cold", Rounded(temp))) ELSE a0
      a2 == IF ~JsLess(temp, th.temperature.max * Tenths)
              THEN Append(a1, Alert("heat", "Extreme heat", Rounded(temp))) ELSE a1
      a3 == IF JsGreater(windSpeed, th.windSpeed)
              THEN Append(a2, Alert("wind", "High winds", Shown(windSpeed))) ELSE a2
      a4 == IF JsGreater(humidity, th.humidity)
              THEN Append(a3, Alert("humidity", "High humidity", Shown(humidity))) ELSE a3
      a5 == IF JsLess(pressure, th.pressure.min) \/ JsGreater(pressure, th.pressure.max)
              THEN Append(a4, Alert("pressure", "Abnormal pressure", Shown(pressure))) ELSE a4
  IN a5

\* the alerts array of checkWeatherAlerts, built push by push
checkWeatherAlerts(weatherData) ==
  LET temp == weatherData.temp
      windSpeed == IF Truthy(weatherData.wind) THEN weatherData.wind ELSE JsNum(0)
      humidity == weatherData.humidity
      pressure == weatherData.pressure
      th == alertThresholds
      a0 == <<>>
      a1 == IF JsLess(temp, th.temperature.min * Tenths)
              THEN Append(a0, Alert("cold", "Extreme cold", Rounded(temp))) ELSE a0
      a2 == IF JsGreater(temp, th.temperature.max * Tenths)
              THEN Append(a1, Alert("heat", "Extreme heat", Rounded(temp))) ELSE a1
      a3 == IF JsGreater(windSpeed, th.windSpeed)
              THEN Append(a2, Alert("wind", "High winds", Shown(windSpeed))) ELSE a2
      a4 == IF JsGreater(humidity, th.humidity)
              THEN Append(a3, Alert("humidity", "High humidity", Shown(humidity))) ELSE a3
      a5 == IF JsLess(pressure, th.pressure.min) \/ JsGreater(pressure, th.pressure.max)
              THEN Append(a4, Alert("pressure", "Abnormal pressure", Shown(pressure))) ELSE a4
  IN a5

(* ------------------------------------------------------------------ *)
(* Cache and history                                                    *)
(* ------------------------------------------------------------------ *)
\* the cache read with the boundary age taken as live
getCachedWeatherInclusive(store, clock, readOk) ==
  IF ~readOk THEN Null
  ELSE IF store = Null THEN Null
  ELSE IF store[1].timestamp # 0 /\ clock - store[1].timestamp <= OFFLINE_RETENTION
    THEN Some(store[1].data)
  ELSE Null

\* the cache read with CACHE_DURATION for the retention period
getCachedWeatherShortLived(store, clock, readOk) ==
  IF ~readOk THEN Null
  ELSE IF store = Null THEN Null
  ELSE IF store[1].timestamp # 0 /\ clock - store[1].timestamp < CACHE_DURATION
    THEN Some(store[1].data)
  ELSE Null

\* getCachedWeather: store is the weather_cache item (Null: no item), readOk
\* is whether localStorage.getItem and JSON.parse return without throwing
getCachedWeather(store, clock, readOk) ==
  IF ~readOk THEN Null
  ELSE IF store = Null THEN Null
  ELSE IF store[1].timestamp # 0 /\ clock - store[1].timestamp < OFFLINE_RETENTION
    THEN Some(store[1].data)
  ELSE Null

\* the entry updateWeatherHistory builds
newEntry(weatherData, clock) ==
  [timestamp |-> clock, temperature |-> weatherData.temp,
   condition |-> weatherData.main, location |-> weatherData.name]

\* Array.prototype.slice(0, n)
Slice(seq, n) == IF Len(seq) <= n THEN seq ELSE SubSeq(seq, 1, n)

\* a history that refuses the new entry once it is full
updatedKeepsOldest(prev, entry) ==
  IF Len(prev) >= MAX_HISTORY_ENTRIES THEN prev ELSE <<entry>> \o prev

\* [newEntry, ...prev].slice(0, MAX_HISTORY_ENTRIES)
updated(prev, entry) == Slice(<<entry>> \o prev, MAX_HISTORY_ENTRIES)

(* ------------------------------------------------------------------ *)
(* State                                                                *)
(* ------------------------------------------------------------------ *)
VARIABLES
  location,         \* useState({lat: null, lon: null})
  weather,          \* current reading, Null or Some(payload)
  loading,
  error,            \* [text, detail]; text "" is no error
  isOnline,
  lastUpdate,       \* Null or Some(instant)
  isRefreshing,
  weatherHistory,   \* newest first
  apiCallCount,
  dataUsage,
  batteryOptimized,
  retryCount,       \* retryCountRef.current
  cacheStore,       \* localStorage item weather_cache: Null or Some([timestamp, data])
  documentHidden,   \* document.hidden
  now,              \* Date.now()
  locating,         \* a getCurrentPosition request is pending
  pending,          \* fetchWeatherData calls awaiting the transport
  retryTimers,      \* setTimeout callbacks of handleWeatherError not yet run
  alerts,           \* the alerts array of the last checkWeatherAlerts call, Null before
  notificationsEnabled,
  encryptionEnabled,
  permission,       \* Notification.permission; "unsupported": no Notification in window
  notifications,    \* the Notification objects constructed so far, oldest first
  enabledInFetch,   \* notificationsEnabled as the showNotification of the current
                    \* fetchWeatherData captured it (deps [encryptionEnabled])
  enabledInLocate,  \* the same for the fetchWeatherData getCurrentLocation
                    \* captured (deps [batteryOptimized])
  enabledInLocating, \* the same for the getCurrentLocation call that is awaiting
                    \* the position
  enabledInOnline,  \* the same for the fetchWeatherData handleOnline captured
                    \* (effect deps [location])
  enabledInOffline, \* notificationsEnabled as the showNotification of
                    \* handleOffline captured it (effect deps [location])
  late,             \* settlements still to come of races already decided
  refreshInterval,  \* minutes
  refreshTimeout    \* refreshTimeoutRef.current: Null, or Some of what the
                    \* setInterval callback of the auto-refresh effect captured

vars ==
  <<location, weather, loading, error, isOnline, lastUpdate, isRefreshing,
    weatherHistory, apiCallCount, dataUsage, batteryOptimized, retryCount,
    cacheStore, documentHidden, now, locating, pending, retryTimers, alerts,
    notificationsEnabled, encryptionEnabled, permission, notifications,
    enabledInFetch, enabledInLocate, enabledInLocating, enabledInOnline,
    enabledInOffline, late, refreshInterval, refreshTimeout>>

\* what the notification permission and the settings are
settings == <<notificationsEnabled, encryptionEnabled, permission, refreshInterval>>
\* what the memoized callbacks and the effects captured
captured ==
  <<enabledInFetch, enabledInLocate, enabledInLocating, enabledInOnline,
    enabledInOffline, refreshTimeout>>

NoError == [text |-> "", detail |-> ""]
Err(text) == [text |-> text, detail |-> ""]
CachedDataError == Err("Using cached data - connection issues detected")
Unavailable(message) == [text |-> "Weather service unavailable", detail |-> message]

\* the positions the geolocation provider reports
Positions ==
  {[lat |-> JsNum(14), lon |-> JsNum(121)], [lat |-> JsNum(0), lon |-> JsNum(121)]}

\* what makes the transport promise reject, or the response not ok
FailureMessages == {"Request timeout"}

\* a record a previous session left in localStorage
StoredBefore == Some([timestamp |-> 1, data |-> Mild])

Init ==
  /\ location = [lat |-> JsNull, lon |-> JsNull]
  /\ weather = Null
  /\ loading = FALSE
  /\ error = NoError
  /\ isOnline \in BOOLEAN
  /\ lastUpdate = Null
  /\ isRefreshing = FALSE
  /\ weatherHistory = <<>>
  /\ apiCallCount = 0
  /\ dataUsage = 0
  /\ batteryOptimized = TRUE
  /\ retryCount = 0
  /\ cacheStore \in {Null, StoredBefore}
  /\ documentHidden = FALSE
  /\ now = 1
  /\ locating = FALSE
  /\ pending = {}
  /\ retryTimers = {}
  /\ alerts = Null
  /\ notificationsEnabled = FALSE
  /\ encryptionEnabled = TRUE
  /\ permission = "default"
  /\ notifications = <<>>
  /\ enabledInFetch = FALSE
  /\ enabledInLocate = FALSE
  /\ enabledInLocating = FALSE
  /\ enabledInOnline = FALSE
  /\ enabledInOffline = FALSE
  /\ late = {}
  /\ refreshInterval = 10
  /\ refreshTimeout = Null

(* ------------------------------------------------------------------ *)
(* Notifications                                                        *)
(* ------------------------------------------------------------------ *)
\* notificationsEnabled of the first render, which is what the callbacks
\* memoized once see for good: checkWeatherAlerts (deps [alertThresholds],
\* never set), handleWeatherError and requestNotificationPermission (deps [])
enabledAtFirstRender == FALSE

Notification(title, detail) == [title |-> title, detail |-> detail]

\* showNotification as a callback that captured notificationsEnabled = enabled,
\* called when Notification.permission is granted: the Notification objects
\* it constructs
showNotification(enabled, granted, title, detail) ==
  IF ~enabled THEN <<>>
  ELSE IF granted # "unsupported" /\ granted = "granted"
    THEN <<Notification(title, detail)>>
  ELSE <<>>

(* ------------------------------------------------------------------ *)
(* fetchWeatherData and handleWeatherError                              *)
(* ------------------------------------------------------------------ *)
\* a call of fetchWeatherData(lat, lon, isAutoRefresh) up to its first await.
\* id tells apart calls with equal arguments; delays are the backoff delays
\* the call's cycle has scheduled so far (empty for a first attempt); enabled
\* is notificationsEnabled as the showNotification of the fetchWeatherData
\* that was called captured it.
Call(id, lat, lon, isAutoRefresh, delays, enabled) ==
  [id |-> id, lat |-> lat, lon |-> lon, isAutoRefresh |-> isAutoRefresh,
   delays |-> delays, enabled |-> enabled]

\* the least number no call or timer in the set carries
FreeId(used) == CHOOSE i \in 1..(Cardinality(used) + 1) :
  /\ \A x \in used : x.id # i
  /\ \A j \in 1..(i - 1) : \E x \in used : x.id = j

\* a fetch that counts the first attempt of a cycle only
StartFetchCountingFirstAttempts(lat, lon, isAutoRefresh, delays, enabled) ==
  /\ apiCallCount < MaxApiCalls
  /\ isRefreshing' = (IF ~isAutoRefresh THEN TRUE ELSE isRefreshing)
  /\ apiCallCount' = (IF delays = <<>> THEN apiCallCount + 1 ELSE apiCallCount)
  /\ pending' = pending \cup
       {Call(FreeId(pending), lat, lon, isAutoRefresh, delays, enabled)}

StartFetch(lat, lon, isAutoRefresh, delays, enabled) ==
  /\ apiCallCount < MaxApiCalls
  /\ isRefreshing' = (IF ~isAutoRefresh THEN TRUE ELSE isRefreshing)
  /\ apiCallCount' = apiCallCount + 1
  /\ pending' = pending \cup
       {Call(FreeId(pending), lat, lon, isAutoRefresh, delays, enabled)}

\* Math.pow(2, retryCountRef.current) * 1000
Delay(count) == (2 ^ count) * 1000

\* the notifications raised and pending stay within the bound of the model
Raise(raised) ==
  /\ Len(notifications) + Len(raised) <= MaxNotifications
  /\ notifications' = notifications \o raised

\* the error handling with one more retry before giving up
handleWeatherErrorOneMore(message, call, count, current, currentError, readOk) ==
  LET incremented == count + 1
      cachedWeather == getCachedWeather(cacheStore, now, readOk)
  IN IF incremented <= maxRetries
       THEN [retryCount |-> incremented,
             timer |-> Some([id |-> FreeId(retryTimers),
                             lat |-> call.lat, lon |-> call.lon,
                             isAutoRefresh |-> call.isAutoRefresh,
                             delays |-> Append(call.delays, Delay(incremented))]),
             weather |-> current, error |-> currentError, exhausted |-> FALSE,
             raised |-> <<>>]
     ELSE IF cachedWeather # Null
       THEN [retryCount |-> 0, timer |-> Null, weather |-> cachedWeather,
             error |-> CachedDataError, exhausted |-> TRUE,
             raised |-> showNotification(enabledAtFirstRender, permission, "Offline Mode",
                                         "Using cached weather data")]
     ELSE [retryCount |-> 0, timer |-> Null, weather |-> current,
           error |-> Unavailable(message), exhausted |-> TRUE, raised |-> <<>>]

\* an error handler that shows every failure, retried or not
handleWeatherErrorLoud(message, call, count, current, currentError, readOk) ==
  LET incremented == count + 1
      cachedWeather == getCachedWeather(cacheStore, now, readOk)
  IN IF incremented < maxRetries
       THEN [retryCount |-> incremented,
             timer |-> Some([id |-> FreeId(retryTimers),
                             lat |-> call.lat, lon |-> call.lon,
                             isAutoRefresh |-> call.isAutoRefresh,
                             delays |-> Append(call.delays, Delay(incremented))]),
             weather |-> current, error |-> Unavailable(message),
             exhausted |-> FALSE, raised |-> <<>>]
     ELSE IF cachedWeather # Null
       THEN [retryCount |-> 0, timer |-> Null, weather |-> cachedWeather,
             error |-> CachedDataError, exhausted |-> TRUE,
             raised |-> showNotification(enabledAtFirstRender, permission, "Offline Mode",
                                         "Using cached weather data")]
     ELSE [retryCount |-> 0, timer |-> Null, weather |-> current,
           error |-> Unavailable(message), exhausted |-> TRUE, raised |-> <<>>]

\* handleWeatherError(error, lat, lon, isAutoRefresh) with the counter at
\* count, the reading at current: the new counter, the timer it sets (Null:
\* none), the reading and the error message it leaves, the notifications it
\* raises.  Its setTimeout callback calls the fetchWeatherData of the first
\* render, and its showNotification is the one of the first render.
handleWeatherError(message, call, count, current, currentError, readOk) ==
  LET incremented == count + 1
      cachedWeather == getCachedWeather(cacheStore, now, readOk)
  IN IF incremented < maxRetries
       THEN [retryCount |-> incremented,
             timer |-> Some([id |-> FreeId(retryTimers),
                             lat |-> call.lat, lon |-> call.lon,
                             isAutoRefresh |-> call.isAutoRefresh,
                             delays |-> Append(call.delays, Delay(incremented))]),
             weather |-> current, error |-> currentError, exhausted |-> FALSE,
             raised |-> <<>>]
     ELSE IF cachedWeather # Null
       THEN [retryCount |-> 0, timer |-> Null, weather |-> cachedWeather,
             error |-> CachedDataError, exhausted |-> TRUE,
             raised |-> showNotification(enabledAtFirstRender, permission, "Offline Mode",
                                         "Using cached weather data")]
     ELSE [retryCount |-> 0, timer |-> Null, weather |-> current,
           error |-> Unavailable(message), exhausted |-> TRUE, raised |-> <<>>]

\* a catch that keeps the indicator on while a retry is scheduled
FailedSpinningThroughBackoff(call, message, count, current, currentError, readOk, raisedBefore) ==
  LET r == handleWeatherError(message, call, count, current, currentError, readOk)
  IN /\ retryCount' = r.retryCount
     /\ retryTimers' = (IF r.timer = Null THEN retryTimers
                        ELSE retryTimers \cup {r.timer[1]})
     /\ weather' = r.weather
     /\ error' = r.error
     /\ loading' = FALSE
     /\ isRefreshing' = (r.timer # Null /\ isRefreshing)
     /\ pending' = pending \ {call}
     /\ Raise(raisedBefore \o r.raised)

\* the catch and finally blocks of fetchWeatherData for a call that threw
\* after raising the notifications raisedBefore
Failed(call, message, count, current, currentError, readOk, raisedBefore) ==
  LET r == handleWeatherError(message, call, count, current, currentError, readOk)
  IN /\ retryCount' = r.retryCount
     /\ retryTimers' = (IF r.timer = Null THEN retryTimers
                        ELSE retryTimers \cup {r.timer[1]})
     /\ weather' = r.weather
     /\ error' = r.error
     /\ loading' = FALSE
     /\ isRefreshing' = FALSE
     /\ pending' = pending \ {call}
     /\ Raise(raisedBefore \o r.raised)

\* a cache that keeps the record it has
updateWeatherHistoryFirstWriteWins(weatherData, writeOk) ==
  /\ weatherHistory' = updated(weatherHistory, newEntry(weatherData, now))
  /\ cacheStore' = (IF writeOk /\ cacheStore = Null
                      THEN Some([timestamp |-> now, data |-> weatherData])
                    ELSE cacheStore)

\* updateWeatherHistory: the new entry goes to the front of the history and
\* the payload to the weather_cache item, unless localStorage.setItem throws
updateWeatherHistory(weatherData, writeOk) ==
  /\ weatherHistory' = updated(weatherHistory, newEntry(weatherData, now))
  /\ cacheStore' = (IF writeOk THEN Some([timestamp |-> now, data |-> weatherData])
                    ELSE cacheStore)

\* alerts.forEach(alert => showNotification(...)) of checkWeatherAlerts
RECURSIVE forEachAlert(_, _)
forEachAlert(alertsLeft, enabled) ==
  IF alertsLeft = <<>> THEN <<>>
  ELSE showNotification(enabled, permission, "Weather Alert", Head(alertsLeft).type)
         \o forEachAlert(Tail(alertsLeft), enabled)

\* a failure whose cache read removes a record that has expired
RejectedDroppingExpired(call, message, readOk) ==
  /\ Failed(call, message, retryCount, weather, error, readOk, <<>>)
  /\ cacheStore' = (IF retryCount + 1 >= maxRetries
                         /\ getCachedWeather(cacheStore, now, readOk) = Null
                      THEN Null ELSE cacheStore)
  /\ UNCHANGED <<location, isOnline, lastUpdate, weatherHistory, apiCallCount,
                 dataUsage, batteryOptimized, documentHidden, now, locating,
                 alerts, settings, captured>>

\* fetchWeatherData from the rejection of fetchWithTimeout (timeout, network
\* error) or from a response that is not ok
Rejected(call, message, readOk) ==
  /\ Failed(call, message, retryCount, weather, error, readOk, <<>>)
  /\ UNCHANGED <<location, isOnline, lastUpdate, weatherHistory, apiCallCount,
                 dataUsage, batteryOptimized, cacheStore, documentHidden, now, locating,
                 alerts, settings, captured>>

\* fetchWeatherData from a response that is ok and whose body parses to data
Responded(call, data, writeOk, readOk) ==
  /\ IF ~validateWeatherData(data)
       THEN /\ Failed(call, "Invalid weather data received", retryCount, weather,
                      error, readOk, <<>>)
            /\ UNCHANGED <<lastUpdate, weatherHistory, dataUsage, cacheStore, alerts>>
       ELSE /\ lastUpdate' = Some(now)
            /\ updateWeatherHistory(data, writeOk)
            /\ alerts' = Some(checkWeatherAlerts(data))
            /\ dataUsage' = dataUsage + ResponseSize(data)
            /\ IF ~call.isAutoRefresh /\ data.description.t # "string"
                 \* desc.charAt throws a TypeError inside the try block
                 THEN Failed(call, "TypeError", 0, Some(data), NoError, readOk,
                             forEachAlert(checkWeatherAlerts(data), enabledAtFirstRender))
                 ELSE /\ weather' = Some(data)
                      /\ error' = NoError
                      /\ retryCount' = 0
                      /\ loading' = FALSE
                      /\ isRefreshing' = FALSE
                      /\ pending' = pending \ {call}
                      /\ UNCHANGED retryTimers
                      /\ Raise(forEachAlert(checkWeatherAlerts(data), enabledAtFirstRender)
                                 \o (IF call.isAutoRefresh THEN <<>>
                                     ELSE showNotification(call.enabled, permission,
                                                           data.name.s,
                                                           data.description.s)))
  /\ UNCHANGED <<location, isOnline, apiCallCount, batteryOptimized,
                 documentHidden, now, locating, settings, captured>>

\* fetchWeatherData from a response that is ok and valid, when the first
\* `new Notification(...)` it comes to throws (the platform refuses the
\* constructor): in the forEach of checkWeatherAlerts, before the data usage
\* is added, or else in the summary notification, after it. Nothing in
\* showNotification catches it; the catch of fetchWeatherData does.
RespondedNotificationThrows(call, data, writeOk, readOk) ==
  LET inAlerts == forEachAlert(checkWeatherAlerts(data), enabledAtFirstRender)
      inSummary == IF call.isAutoRefresh \/ data.description.t # "string" THEN <<>>
                   ELSE showNotification(call.enabled, permission, data.name.s,
                                         data.description.s)
  IN /\ validateWeatherData(data)
     /\ inAlerts # <<>> \/ inSummary # <<>>
     /\ lastUpdate' = Some(now)
     /\ updateWeatherHistory(data, writeOk)
     /\ alerts' = Some(checkWeatherAlerts(data))
     /\ dataUsage' = (IF inAlerts # <<>> THEN dataUsage
                      ELSE dataUsage + ResponseSize(data))
     /\ Failed(call, "Illegal constructor", 0, Some(data), NoError, readOk, <<>>)
     /\ UNCHANGED <<location, isOnline, apiCallCount, batteryOptimized,
                    documentHidden, now, locating, settings, captured>>

\* the race of fetchWithTimeout is decided against the call
FetchRejected(call, message, readOk) ==
  /\ call \in pending
  /\ Rejected(call, message, readOk)
  /\ UNCHANGED late

\* the race of fetchWithTimeout is decided by a response that is ok
FetchResponded(call, data, writeOk, readOk) ==
  /\ call \in pending
  /\ Responded(call, data, writeOk, readOk)
  /\ UNCHANGED late

\* the race is decided by a valid response and the notification platform
\* fails while fetchWeatherData raises a notification
FetchRespondedNotificationThrows(call, data, writeOk, readOk) ==
  /\ call \in pending
  /\ RespondedNotificationThrows(call, data, writeOk, readOk)
  /\ UNCHANGED late

\* a retry that reads the coordinates when the timer fires
RetryTimerFiresAtCurrentLocation(timer) ==
  /\ timer \in retryTimers
  /\ StartFetch(location.lat, location.lon, timer.isAutoRefresh, timer.delays,
                enabledAtFirstRender)
  /\ retryTimers' = retryTimers \ {timer}
  /\ UNCHANGED <<location, weather, loading, error, isOnline, lastUpdate,
                 weatherHistory, dataUsage, batteryOptimized, retryCount,
                 cacheStore, documentHidden, now, locating,
                 alerts, settings, captured, notifications, late>>

\* the setTimeout callback of handleWeatherError runs
RetryTimerFires(timer) ==
  /\ timer \in retryTimers
  /\ StartFetch(timer.lat, timer.lon, timer.isAutoRefresh, timer.delays,
                enabledAtFirstRender)
  /\ retryTimers' = retryTimers \ {timer}
  /\ UNCHANGED <<location, weather, loading, error, isOnline, lastUpdate,
                 weatherHistory, dataUsage, batteryOptimized, retryCount,
                 cacheStore, documentHidden, now, locating,
                 alerts, settings, captured, notifications, late>>

(* ------------------------------------------------------------------ *)
(* Triggers                                                             *)
(* ------------------------------------------------------------------ *)
\* location.lat && location.lon
HasLocation == Truthy(location.lat) /\ Truthy(location.lon)

\* an effect without the cleanup: the interval armed first stays
autoRefreshEffectArmedOnce(previous, loc, minutes, optimized, online) ==
  IF previous # Null THEN previous
  ELSE IF Truthy(loc.lat) /\ Truthy(loc.lon) /\ online
    THEN Some([lat |-> loc.lat, lon |-> loc.lon,
               intervalMs |-> minutes * 60 * 1000,
               batteryOptimized |-> optimized])
  ELSE Null

\* the auto-refresh effect, run after a render in which location,
\* refreshInterval, batteryOptimized or isOnline changed: the cleanup of the
\* run before clears its interval (previous), then the body sets a new one,
\* whose callback captures the values of the render, if location.lat &&
\* location.lon && isOnline
autoRefreshEffect(previous, loc, minutes, optimized, online) ==
  IF Truthy(loc.lat) /\ Truthy(loc.lon) /\ online
    THEN Some([lat |-> loc.lat, lon |-> loc.lon,
               intervalMs |-> minutes * 60 * 1000,
               batteryOptimized |-> optimized])
  ELSE Null

\* getCurrentLocation up to its await; its button is shown while there is no
\* reading and is disabled while loading
GetCurrentLocation(supported) ==
  /\ weather = Null
  /\ ~loading
  /\ ~locating
  /\ IF ~supported
       THEN /\ error' = Err("Geolocation not supported on this device")
            /\ loading' = FALSE
            /\ UNCHANGED <<locating, enabledInLocating>>
       ELSE /\ error' = NoError
            /\ loading' = TRUE
            /\ locating' = TRUE
            /\ enabledInLocating' = enabledInLocate
  /\ UNCHANGED <<location, weather, isOnline, lastUpdate, isRefreshing,
                 weatherHistory, apiCallCount, dataUsage, batteryOptimized,
                 retryCount, cacheStore, documentHidden, now, pending,
                 retryTimers,
                 alerts, settings, notifications, late,
                 enabledInFetch, enabledInLocate, enabledInOnline, enabledInOffline,
                 refreshTimeout>>

\* the geolocation provider reports a position; setLocation makes the
\* network effect register handlers that capture the callbacks of the render
PositionAcquired(position) ==
  /\ locating
  /\ locating' = FALSE
  /\ location' = position
  /\ StartFetch(position.lat, position.lon, FALSE, <<>>, enabledInLocating)
  /\ enabledInOnline' = enabledInFetch
  /\ enabledInOffline' = notificationsEnabled
  /\ refreshTimeout' = autoRefreshEffect(refreshTimeout, position, refreshInterval,
                                         batteryOptimized, isOnline)
  /\ UNCHANGED <<weather, loading, error, isOnline, lastUpdate, weatherHistory,
                 dataUsage, batteryOptimized, retryCount, cacheStore,
                 documentHidden, now, retryTimers,
                 alerts, settings, notifications, late,
                 enabledInFetch, enabledInLocate, enabledInLocating>>

\* one message for every code
LocationErrorMessageGeneric(code) == "Unable to get your location"

\* handleLocationError
LocationErrorMessage(code) ==
  CASE code = 1 -> "Location access denied. Please enable location services."
    [] code = 2 -> "Location unavailable. Please check your connection."
    [] code = 3 -> "Location request timed out. Please try again."
    [] OTHER -> "Unable to get your location"

handleLocationError(code) ==
  /\ locating
  /\ locating' = FALSE
  /\ error' = Err(LocationErrorMessage(code))
  /\ loading' = FALSE
  /\ UNCHANGED <<location, weather, isOnline, lastUpdate, isRefreshing,
                 weatherHistory, apiCallCount, dataUsage, batteryOptimized,
                 retryCount, cacheStore, documentHidden, now, pending,
                 retryTimers,
                 alerts, settings, captured, notifications, late>>

\* the window's online event
handleOnline ==
  /\ ~isOnline
  /\ isOnline' = TRUE
  /\ IF HasLocation
       THEN StartFetch(location.lat, location.lon, FALSE, <<>>, enabledInOnline)
       ELSE UNCHANGED <<isRefreshing, apiCallCount, pending>>
  /\ refreshTimeout' = autoRefreshEffect(refreshTimeout, location, refreshInterval,
                                         batteryOptimized, TRUE)
  /\ UNCHANGED <<location, weather, loading, error, lastUpdate, weatherHistory,
                 dataUsage, batteryOptimized, retryCount, cacheStore,
                 documentHidden, now, locating, retryTimers,
                 alerts, settings, notifications, late,
                 enabledInFetch, enabledInLocate, enabledInLocating,
                 enabledInOnline, enabledInOffline>>

\* the window's offline event
handleOffline ==
  /\ isOnline
  /\ isOnline' = FALSE
  /\ refreshTimeout' = autoRefreshEffect(refreshTimeout, location, refreshInterval,
                                         batteryOptimized, FALSE)
  /\ Raise(showNotification(enabledInOffline, permission, "Offline Mode",
                            "Using cached weather data"))
  /\ UNCHANGED <<location, weather, loading, error, lastUpdate, isRefreshing,
                 weatherHistory, apiCallCount, dataUsage, batteryOptimized,
                 retryCount, cacheStore, documentHidden, now, locating,
                 pending, retryTimers,
                 alerts, settings, late,
                 enabledInFetch, enabledInLocate, enabledInLocating,
                 enabledInOnline, enabledInOffline>>

\* a callback that refreshes on every tick, whatever the page and the setting
AutoRefreshTickEveryTick ==
  /\ refreshTimeout # Null
  /\ StartFetch(refreshTimeout[1].lat, refreshTimeout[1].lon, TRUE, <<>>,
                enabledInFetch)
  /\ UNCHANGED <<location, weather, loading, error, isOnline, lastUpdate,
                 weatherHistory, dataUsage, batteryOptimized, retryCount,
                 cacheStore, documentHidden, now, locating,
                 retryTimers,
                 alerts, settings, captured, notifications, late>>

\* the setInterval callback of the auto-refresh effect: it runs while its
\* interval is set, with the location and the batteryOptimized it captured;
\* document.hidden is read when it runs.  (The showNotification of the
\* fetchWeatherData it calls is never reached by a periodic fetch.)
AutoRefreshTick ==
  /\ refreshTimeout # Null
  /\ IF refreshTimeout[1].batteryOptimized /\ documentHidden
       THEN UNCHANGED <<isRefreshing, apiCallCount, pending>>
       ELSE StartFetch(refreshTimeout[1].lat, refreshTimeout[1].lon, TRUE, <<>>,
                       enabledInFetch)
  /\ UNCHANGED <<location, weather, loading, error, isOnline, lastUpdate,
                 weatherHistory, dataUsage, batteryOptimized, retryCount,
                 cacheStore, documentHidden, now, locating,
                 retryTimers,
                 alerts, settings, captured, notifications, late>>

\* Manual refresh; its button is shown while there is a reading
refreshWeather ==
  /\ weather # Null
  /\ IF HasLocation /\ ~isRefreshing /\ isOnline
       THEN StartFetch(location.lat, location.lon, FALSE, <<>>, enabledInFetch)
       ELSE UNCHANGED <<isRefreshing, apiCallCount, pending>>
  /\ UNCHANGED <<location, weather, loading, error, isOnline, lastUpdate,
                 weatherHistory, dataUsage, batteryOptimized, retryCount,
                 cacheStore, documentHidden, now, locating,
                 retryTimers,
                 alerts, settings, captured, notifications, late>>

(* ------------------------------------------------------------------ *)
(* Environment                                                          *)
(* ------------------------------------------------------------------ *)
\* the settings toggle: setBatteryOptimized(!batteryOptimized); the render
\* memoizes getCurrentLocation anew
ToggleBatteryOptimized ==
  /\ batteryOptimized' = ~batteryOptimized
  /\ enabledInLocate' = enabledInFetch
  /\ refreshTimeout' = autoRefreshEffect(refreshTimeout, location, refreshInterval,
                                         ~batteryOptimized, isOnline)
  /\ UNCHANGED <<location, weather, loading, error, isOnline, lastUpdate,
                 isRefreshing, weatherHistory, apiCallCount, dataUsage,
                 retryCount, cacheStore, documentHidden, now,
                 locating, pending, retryTimers,
                 alerts, settings, notifications, late,
                 enabledInFetch, enabledInLocating, enabledInOnline,
                 enabledInOffline>>

\* the settings toggle: setEncryptionEnabled(!encryptionEnabled); the render
\* memoizes fetchWeatherData anew, with the showNotification of the render
ToggleEncryption ==
  /\ encryptionEnabled' = ~encryptionEnabled
  /\ enabledInFetch' = notificationsEnabled
  /\ UNCHANGED <<location, weather, loading, error, isOnline, lastUpdate,
                 isRefreshing, weatherHistory, apiCallCount, dataUsage,
                 batteryOptimized, retryCount, cacheStore, documentHidden, now,
                 locating, pending, retryTimers, alerts, notificationsEnabled,
                 permission, notifications, late, enabledInLocate,
                 enabledInLocating, enabledInOnline, enabledInOffline,
                 refreshInterval, refreshTimeout>>

\* the minutes the slider of the settings offers (1 to 60), two of them
Minutes == {10, 30}

\* the slider: setRefreshInterval(parseInt(e.target.value))
SetRefreshInterval(minutes) ==
  /\ minutes # refreshInterval
  /\ refreshInterval' = minutes
  /\ refreshTimeout' = autoRefreshEffect(refreshTimeout, location, minutes,
                                         batteryOptimized, isOnline)
  /\ UNCHANGED <<location, weather, loading, error, isOnline, lastUpdate,
                 isRefreshing, weatherHistory, apiCallCount, dataUsage,
                 batteryOptimized, retryCount, cacheStore, documentHidden, now,
                 locating, pending, retryTimers, alerts, notificationsEnabled,
                 encryptionEnabled, permission, notifications, late,
                 enabledInFetch, enabledInLocate, enabledInLocating,
                 enabledInOnline, enabledInOffline>>

\* the answers Notification.requestPermission() resolves to
Answers == {"granted", "denied", "default"}

\* requestNotificationPermission, answer being what the user answers when
\* the browser asks; its own showNotification is the one of the first render
requestNotificationPermission(answer) ==
  /\ IF permission = "unsupported"
       THEN UNCHANGED <<permission, notificationsEnabled, notifications>>
       ELSE /\ permission' = (IF permission = "default" THEN answer ELSE permission)
            /\ notificationsEnabled' = (permission' = "granted")
            /\ Raise(IF permission' = "granted"
                       THEN showNotification(enabledAtFirstRender, permission',
                              "Weather Notifications",
                              "You will receive weather alerts and updates")
                       ELSE <<>>)
  /\ UNCHANGED <<location, weather, loading, error, isOnline, lastUpdate,
                 isRefreshing, weatherHistory, apiCallCount, dataUsage,
                 batteryOptimized, retryCount, cacheStore, documentHidden, now,
                 locating, pending, retryTimers, alerts, encryptionEnabled,
                 refreshInterval, captured, late>>

\* the user changes the site's notification permission in the browser
SitePermissionChange(to) ==
  /\ permission # "unsupported"
  /\ to # permission
  /\ permission' = to
  /\ UNCHANGED <<location, weather, loading, error, isOnline, lastUpdate,
                 isRefreshing, weatherHistory, apiCallCount, dataUsage,
                 batteryOptimized, retryCount, cacheStore, documentHidden, now,
                 locating, pending, retryTimers, alerts, notificationsEnabled,
                 encryptionEnabled, refreshInterval, notifications, captured,
                 late>>

\* the page goes to the background or comes back
VisibilityChange ==
  /\ documentHidden' = ~documentHidden
  /\ UNCHANGED <<location, weather, loading, error, isOnline, lastUpdate,
                 isRefreshing, weatherHistory, apiCallCount, dataUsage,
                 batteryOptimized, retryCount, cacheStore, now,
                 locating, pending, retryTimers,
                 alerts, settings, captured, notifications, late>>

\* the instants at which the clock is read: the start, and the instants just
\* before, exactly at and just after the retention period has passed since
Instants ==
  {1, 1 + OFFLINE_RETENTION - 1, 1 + OFFLINE_RETENTION, 1 + OFFLINE_RETENTION + 1}

\* time passes
TimePasses(instant) ==
  /\ instant > now
  /\ now' = instant
  /\ UNCHANGED <<location, weather, loading, error, isOnline, lastUpdate,
                 isRefreshing, weatherHistory, apiCallCount, dataUsage,
                 batteryOptimized, retryCount, cacheStore, documentHidden,
                 locating, pending, retryTimers,
                 alerts, settings, captured, notifications, late>>

\* localStorage is read only when the retries are exhausted and written only
\* for a payload that passed validation; either may throw
ReadOutcomes == IF retryCount + 1 < maxRetries THEN {TRUE} ELSE BOOLEAN
WriteOutcomes(data) == IF validateWeatherData(data) THEN BOOLEAN ELSE {TRUE}

Next ==
  \/ \E supported \in BOOLEAN : GetCurrentLocation(supported)
  \/ \E position \in Positions : PositionAcquired(position)
  \/ \E code \in 1..4 : handleLocationError(code)
  \/ handleOnline
  \/ handleOffline
  \/ AutoRefreshTick
  \/ refreshWeather
  \/ \E call \in pending, message \in FailureMessages, readOk \in ReadOutcomes :
       FetchRejected(call, message, readOk)
  \/ \E call \in pending, data \in Payloads :
       \E writeOk \in WriteOutcomes(data), readOk \in ReadOutcomes :
         FetchResponded(call, data, writeOk, readOk)
  \/ \E timer \in retryTimers : RetryTimerFires(timer)
  \/ \E instant \in Instants : TimePasses(instant)

Spec == Init /\ [][Next]_vars

(* ------------------------------------------------------------------ *)
(* Steps the properties speak about                                     *)
(* ------------------------------------------------------------------ *)
\* a step in which the attempt of call fails: the transport rejects, the
\* response is not ok, or validateWeatherData rejects the body
AttemptFails(call, readOk) ==
  \/ \E message \in FailureMessages : FetchRejected(call, message, readOk)
  \/ \E data \in Payloads :
       ~validateWeatherData(data) /\ FetchResponded(call, data, TRUE, readOk)

\* a failing step that finds the retries exhausted
Exhausts(call, readOk) ==
  retryCount + 1 >= maxRetries /\ AttemptFails(call, readOk)

\* age of the cache record
CacheAge == now - cacheStore[1].timestamp

(* ------------------------------------------------------------------ *)
(* C1                                                                   *)
(* ------------------------------------------------------------------ *)
\* C1: in every reachable state at most one call of fetchWeatherData is
\* awaiting the transport, whatever triggers occur.
AtMostOneFetching == Cardinality(pending) <= 1

(* ------------------------------------------------------------------ *)
(* C2                                                                   *)
(* ------------------------------------------------------------------ *)
\* C2: a manual refresh made while a call is awaiting the transport, or
\* while the device is offline, invokes the transport zero times.
RefreshWhileFetchingIsNoOp ==
  [][(refreshWeather /\ (pending # {} \/ ~isOnline))
       => (apiCallCount' = apiCallCount /\ pending' = pending)]_vars

(* ------------------------------------------------------------------ *)
(* C3                                                                   *)
(* ------------------------------------------------------------------ *)
\* C3: a cycle that runs alone (every transport invocation so far is one of
\* its attempts) and whose attempts all fail has scheduled three re-attempts
\* with delays 2000, 4000 and 8000 ms when it exhausts its retries.
BackoffDelaysAre2s4s8s ==
  [][\A call \in pending, readOk \in BOOLEAN :
       (Exhausts(call, readOk) /\ apiCallCount = Len(call.delays) + 1)
         => call.delays = <<2000, 4000, 8000>>]_vars

(* ------------------------------------------------------------------ *)
(* C4                                                                   *)
(* ------------------------------------------------------------------ *)
\* C4 as claimed: when the retries are exhausted and the cache holds a
\* record that is not expired (now - storedAt <= OFFLINE_RETENTION), the
\* cached snapshot becomes the reading with the cached-data message, and the
\* unavailable-service error is not set.
ExhaustionUsesUnexpiredCache ==
  [][\A call \in pending :
       (Exhausts(call, TRUE) /\ cacheStore # Null /\ CacheAge <= OFFLINE_RETENTION)
         => (weather' = Some(cacheStore[1].data) /\ error' = CachedDataError)]_vars

\* C4 amended: the same for a record younger than OFFLINE_RETENTION that
\* localStorage returns without throwing.
ExhaustionUsesLiveCache ==
  [][\A call \in pending :
       (Exhausts(call, TRUE) /\ cacheStore # Null /\ CacheAge < OFFLINE_RETENTION)
         => (weather' = Some(cacheStore[1].data) /\ error' = CachedDataError)]_vars

\* the retries were exhausted with a live record that differs from what the
\* reading was: the cached snapshot is the reading, no fetch ever succeeded
CachedFallbackReached ==
  /\ error = CachedDataError
  /\ cacheStore # Null /\ weather = Some(cacheStore[1].data)
  /\ lastUpdate = Null
  /\ retryCount = 0

CacheReadIncludesBoundary ==
  (getCachedWeather(cacheStore, now, TRUE) # Null)
    <=> (cacheStore # Null /\ CacheAge <= OFFLINE_RETENTION)

\* C6 amended: the cache read returns the stored snapshot if and only if the
\* storage read does not throw and now - storedAt < OFFLINE_RETENTION, the
\* boundary excluded; otherwise it returns null.
CacheReadExcludesBoundary ==
  \A readOk \in BOOLEAN :
    getCachedWeather(cacheStore, now, readOk) =
      IF readOk /\ cacheStore # Null /\ CacheAge < OFFLINE_RETENTION
        THEN Some(cacheStore[1].data) ELSE Null

\* the cache was read when the record was exactly OFFLINE_RETENTION old and
\* the read found nothing
BoundaryReadReached ==
  /\ cacheStore # Null /\ CacheAge = OFFLINE_RETENTION
  /\ error.text = "Weather service unavailable"
  /\ lastUpdate = Null

(* ------------------------------------------------------------------ *)
(* C8                                                                   *)
(* ------------------------------------------------------------------ *)
\* what validation is to establish of a payload
Validated(data) == Truthy(data.temp) /\ Truthy(data.main) /\ Truthy(data.name)
EntryValidated(entry) ==
  Truthy(entry.temperature) /\ Truthy(entry.condition) /\ Truthy(entry.location)

\* the cache record, the history entries and the reading come from payloads
\* that passed validation
OnlyValidatedStored ==
  /\ cacheStore # Null => Validated(cacheStore[1].data)
  /\ \A i \in 1..Len(weatherHistory) : EntryValidated(weatherHistory[i])
  /\ weather # Null => Validated(weather[1])

\* C8 as claimed: a failed attempt never changes the cache record, the
\* history or the current reading.
FailedAttemptChangesNoData ==
  [][\A call \in pending, readOk \in BOOLEAN :
       AttemptFails(call, readOk)
         => UNCHANGED <<cacheStore, weatherHistory, weather>>]_vars

\* C8 amended: only validated payloads are stored, and a failed attempt never
\* changes the cache record or the history; it changes the current reading
\* only when it exhausts the retries, and then to the cached snapshot.
FailedAttemptStoresNothing ==
  /\ []OnlyValidatedStored
  /\ [][\A call \in pending, readOk \in BOOLEAN :
          AttemptFails(call, readOk)
            => /\ UNCHANGED <<cacheStore, weatherHistory>>
               /\ \/ weather' = weather
                  \/ /\ retryCount + 1 >= maxRetries
                     /\ cacheStore # Null
                     /\ weather' = Some(cacheStore[1].data)]_vars

\* rejected payloads exhausted the retries and nothing was stored or shown
InvalidPayloadsExhaustedReached ==
  /\ error = Unavailable("Invalid weather data received")
  /\ cacheStore = Null /\ weatherHistory = <<>> /\ weather = Null
  /\ apiCallCount = maxRetries

(* ------------------------------------------------------------------ *)
(* C9                                                                   *)
(* ------------------------------------------------------------------ *)
\* main.temp is a number, weather[0].main a string and name a string
WellTyped(data) ==
  data.temp.t = "number" /\ data.main.t = "string" /\ data.name.t = "string"

\* C9: a response is accepted (it becomes a history entry) if and only if
\* main.temp is present as a number, weather[0].main as a string and name as
\* a string, for every numeric temperature, 0 included.
AcceptedIffWellTyped ==
  [][\A call \in pending, data \in Payloads, writeOk \in BOOLEAN, readOk \in BOOLEAN :
       FetchResponded(call, data, writeOk, readOk)
         => (Len(weatherHistory') = Len(weatherHistory) + 1 <=> WellTyped(data))]_vars

(* ------------------------------------------------------------------ *)
(* The history on its own: updateWeatherHistory called again and again  *)
(* ------------------------------------------------------------------ *)
\* one more valid payload reaches updateWeatherHistory, a millisecond after
\* the one before
HistoryAppend(data) ==
  /\ now <= MAX_HISTORY_ENTRIES + MaxExtraAppends
  /\ updateWeatherHistory(data, TRUE)
  /\ now' = now + 1
  /\ UNCHANGED <<location, weather, loading, error, isOnline, lastUpdate,
                 isRefreshing, apiCallCount, dataUsage, batteryOptimized,
                 retryCount, documentHidden, locating, pending, retryTimers,
                 alerts, settings, captured, notifications, late>>

NextHistory == HistoryAppend(Mild)

SpecHistory == Init /\ [][NextHistory]_vars

(* ------------------------------------------------------------------ *)
(* C7                                                                   *)
(* ------------------------------------------------------------------ *)
Min(a, b) == IF a <= b THEN a ELSE b

\* C7: the history never holds more than MAX_HISTORY_ENTRIES entries; after
\* N appends (made at the instants 1..N) it holds the Min(N, 100) most recent
\* ones, newest first.
HistoryKeepsNewest ==
  /\ Len(weatherHistory) <= MAX_HISTORY_ENTRIES
  /\ Len(weatherHistory) = Min(now - 1, MAX_HISTORY_ENTRIES)
  /\ \A i \in 1..Len(weatherHistory) : weatherHistory[i].timestamp = now - i

\* more than MAX_HISTORY_ENTRIES appends were made: the oldest were evicted
EvictionReached ==
  /\ now - 1 > MAX_HISTORY_ENTRIES
  /\ Len(weatherHistory) = MAX_HISTORY_ENTRIES
  /\ weatherHistory[MAX_HISTORY_ENTRIES].timestamp > 1

(* ------------------------------------------------------------------ *)
(* The alert evaluation on its own                                      *)
(* ------------------------------------------------------------------ *)
\* snapshots around every threshold, optional fields absent or present
AlertTemps == {-154, -100, 253, 400, 401, 446, 450}
AlertPayloads ==
  {Payload(JsNum(temp), JsStr("Clear"), JsStr("clear sky"), JsStr("Manila"),
           wind, humidity, pressure) :
     temp \in AlertTemps,
     wind \in {JsUndef, JsNum(15), JsNum(16)},
     humidity \in {JsUndef, JsNum(80), JsNum(81)},
     pressure \in {JsUndef, JsNum(979), JsNum(980), JsNum(1030), JsNum(1031)}}

\* setWeather(weatherObj) has just run for one of the snapshots
InitAlerts ==
  /\ weather \in {Some(data) : data \in AlertPayloads}
  /\ location = [lat |-> JsNum(14), lon |-> JsNum(121)]
  /\ loading = FALSE
  /\ error = NoError
  /\ isOnline = TRUE
  /\ lastUpdate = Some(1)
  /\ isRefreshing = FALSE
  /\ weatherHistory = <<>>
  /\ apiCallCount = 1
  /\ dataUsage = 0
  /\ batteryOptimized = TRUE
  /\ retryCount = 0
  /\ cacheStore = Null
  /\ documentHidden = FALSE
  /\ now = 1
  /\ locating = FALSE
  /\ pending = {}
  /\ retryTimers = {}
  /\ alerts = Null
  /\ notificationsEnabled = FALSE
  /\ encryptionEnabled = TRUE
  /\ permission = "default"
  /\ notifications = <<>>
  /\ enabledInFetch = FALSE
  /\ enabledInLocate = FALSE
  /\ enabledInLocating = FALSE
  /\ enabledInOnline = FALSE
  /\ enabledInOffline = FALSE
  /\ late = {}
  /\ refreshInterval = 10
  /\ refreshTimeout = Null

\* checkWeatherAlerts(weatherObj) runs
EvaluateAlerts ==
  /\ alerts = Null
  /\ alerts' = Some(checkWeatherAlerts(weather[1]))
  /\ Raise(forEachAlert(checkWeatherAlerts(weather[1]), enabledAtFirstRender))
  /\ UNCHANGED <<location, weather, loading, error, isOnline, lastUpdate,
                 isRefreshing, weatherHistory, apiCallCount, dataUsage,
                 batteryOptimized, retryCount, cacheStore, documentHidden, now,
                 locating, pending, retryTimers, settings, captured, late>>

NextAlerts == EvaluateAlerts

SpecAlerts == InitAlerts /\ [][NextAlerts]_vars

(* ------------------------------------------------------------------ *)
(* C10                                                                  *)
(* ------------------------------------------------------------------ *)
\* the fixed order of the checks
AlertKinds == <<"cold", "heat", "wind", "humidity", "pressure">>

\* the number in a field, an absent wind speed read as 0
Present(v) == v.t = "number"
WindSpeedOf(data) == IF Present(data.wind) THEN data.wind.n ELSE 0

\* whether the check of a kind fires for a snapshot
Fires(data, kind) ==
  CASE kind = "cold" -> data.temp.n < alertThresholds.temperature.min * Tenths
    [] kind = "heat" -> data.temp.n > alertThresholds.temperature.max * Tenths
    [] kind = "wind" -> WindSpeedOf(data) > alertThresholds.windSpeed
    [] kind = "humidity" ->
         Present(data.humidity) /\ data.humidity.n > alertThresholds.humidity
    [] kind = "pressure" ->
         Present(data.pressure)
           /\ (data.pressure.n < alertThresholds.pressure.min
               \/ data.pressure.n > alertThresholds.pressure.max)

ExpectedKinds(data) ==
  LET Test(kind) == Fires(data, kind) IN SelectSeq(AlertKinds, Test)

\* C10: the alerts of a snapshot are exactly the kinds whose check fires, in
\* the order cold, heat, wind, humidity, pressure; for temperature 45 with
\* max 40 there is exactly one heat alert and its message shows 45.
AlertsAreTheFiringKindsInOrder ==
  alerts # Null =>
    LET data == weather[1]
        got == alerts[1]
        heat == {i \in 1..Len(got) : got[i].type = "heat"}
    IN /\ [i \in 1..Len(got) |-> got[i].type] = ExpectedKinds(data)
       /\ data.temp = JsNum(45 * Tenths) =>
            /\ Cardinality(heat) = 1
            /\ \A i \in heat : got[i].value = JsNum(45)

\* a snapshot of 45 degrees that also crosses the wind, humidity and pressure
\* thresholds was evaluated: four alerts at once
SeveralAlertsReached ==
  /\ alerts # Null
  /\ weather[1].temp = JsNum(45 * Tenths)
  /\ Len(alerts[1]) = 4

(* ------------------------------------------------------------------ *)
(* The notifications: permission, settings and what callbacks captured  *)
(* ------------------------------------------------------------------ *)
\* the response bodies the transport delivers in this specification
NotifyPayloads == {Mild, Hot}

\* the page loads in a browser with or without the Notification interface
InitNotify ==
  /\ location = [lat |-> JsNull, lon |-> JsNull]
  /\ weather = Null
  /\ loading = FALSE
  /\ error = NoError
  /\ isOnline = TRUE
  /\ lastUpdate = Null
  /\ isRefreshing = FALSE
  /\ weatherHistory = <<>>
  /\ apiCallCount = 0
  /\ dataUsage = 0
  /\ batteryOptimized = TRUE
  /\ retryCount = 0
  /\ cacheStore = Null
  /\ documentHidden = FALSE
  /\ now = 1
  /\ locating = FALSE
  /\ pending = {}
  /\ retryTimers = {}
  /\ alerts = Null
  /\ notificationsEnabled = FALSE
  /\ encryptionEnabled = TRUE
  /\ permission \in {"default", "unsupported"}
  /\ notifications = <<>>
  /\ enabledInFetch = FALSE
  /\ enabledInLocate = FALSE
  /\ enabledInLocating = FALSE
  /\ enabledInOnline = FALSE
  /\ enabledInOffline = FALSE
  /\ late = {}
  /\ refreshInterval = 10
  /\ refreshTimeout = Null

NextNotify ==
  \/ GetCurrentLocation(TRUE)
  \/ PositionAcquired([lat |-> JsNum(14), lon |-> JsNum(121)])
  \/ handleOnline
  \/ handleOffline
  \/ AutoRefreshTick
  \/ refreshWeather
  \/ \E call \in pending, data \in NotifyPayloads :
       FetchResponded(call, data, TRUE, TRUE)
  \/ \E answer \in Answers : requestNotificationPermission(answer)
  \/ \E call \in pending, message \in FailureMessages :
       FetchRejected(call, message, TRUE)
  \/ \E timer \in retryTimers : RetryTimerFires(timer)
  \/ \E to \in Answers : SitePermissionChange(to)
  \/ ToggleEncryption

SpecNotify == InitNotify /\ [][NextNotify]_vars

\* the notifications a step raises
Raised == SubSeq(notifications', Len(notifications) + 1, Len(notifications'))
IsAlertNotification(n) == n.title = "Weather Alert"
IsSummaryNotification(n) == n.title \in {"Manila", "Oslo"}

\* a fetch of call succeeds with data while notifications are enabled and
\* the permission is granted
SucceedsEnabled(call, data) ==
  /\ notificationsEnabled /\ permission = "granted"
  /\ validateWeatherData(data)
  /\ FetchResponded(call, data, TRUE, TRUE)

(* ------------------------------------------------------------------ *)
(* C11                                                                  *)
(* ------------------------------------------------------------------ *)
\* C11: a step raises a notification only if notificationsEnabled is true
\* and the permission is granted; notificationsEnabled changes only in a
\* permission request, to whether the request returned granted.
NotificationsOnlyWhileEnabled ==
  [][/\ Raised # <<>> => (notificationsEnabled' /\ permission' = "granted")
     /\ notificationsEnabled' # notificationsEnabled
          => \E answer \in Answers : requestNotificationPermission(answer)
     /\ \A answer \in Answers :
          (requestNotificationPermission(answer) /\ permission # "unsupported")
            => notificationsEnabled' = (permission' = "granted")]_vars

(* ------------------------------------------------------------------ *)
(* C12                                                                  *)
(* ------------------------------------------------------------------ *)
\* C12: a fetch that succeeds after the permission was granted raises one
\* alert notification for each alert of the snapshot.
EveryAlertIsNotified ==
  [][\A call \in pending, data \in NotifyPayloads :
       SucceedsEnabled(call, data)
         => Len(SelectSeq(Raised, IsAlertNotification))
              = Len(checkWeatherAlerts(data))]_vars

(* ------------------------------------------------------------------ *)
(* C13                                                                  *)
(* ------------------------------------------------------------------ *)
\* C13: with notifications enabled, a fetch that succeeds raises one summary
\* notification if its trigger is not the periodic timer, and none if it is.
SummaryIffNotPeriodic ==
  [][\A call \in pending, data \in NotifyPayloads :
       SucceedsEnabled(call, data)
         => Len(SelectSeq(Raised, IsSummaryNotification))
              = (IF call.isAutoRefresh THEN 0 ELSE 1)]_vars

(* ------------------------------------------------------------------ *)
(* C14                                                                  *)
(* ------------------------------------------------------------------ *)
\* C14: the retry counter stays within 0..maxRetries, and it is 0 right after
\* every fetch that returned a valid payload and right after every
\* exhaustion.
RetryCounterBoundedAndReset ==
  /\ [](retryCount \in 0..maxRetries)
  /\ [][\A call \in pending, data \in Payloads, writeOk \in BOOLEAN, readOk \in BOOLEAN :
          (validateWeatherData(data) /\ FetchResponded(call, data, writeOk, readOk))
            => retryCount' = 0]_vars
  /\ [][\A call \in pending, readOk \in BOOLEAN :
          Exhausts(call, readOk) => retryCount' = 0]_vars

(* ------------------------------------------------------------------ *)
(* C15                                                                  *)
(* ------------------------------------------------------------------ *)
\* C15: going offline leaves no backoff timer pending, and a backoff timer
\* that fires requests the coordinates of the current location, never
\* superseded ones.
RetryTimersCancelledOnChange ==
  /\ [][handleOffline => retryTimers' = {}]_vars
  /\ [][\A timer \in retryTimers :
          RetryTimerFires(timer)
            => (timer.lat = location.lat /\ timer.lon = location.lon)]_vars

(* ------------------------------------------------------------------ *)
(* fetchWithTimeout: the race between the network call and its timer    *)
(* ------------------------------------------------------------------ *)
\* everything but the settlements still to come
program ==
  <<location, weather, loading, error, isOnline, lastUpdate, isRefreshing,
    weatherHistory, apiCallCount, dataUsage, batteryOptimized, retryCount,
    cacheStore, documentHidden, now, locating, pending, retryTimers, alerts,
    settings, captured, notifications>>

\* a race in which every settlement reaches the awaiting call
PromiseRaceEverySettlement(decided, continuation) == continuation

\* Promise.race: the promise awaited in fetchWeatherData settles with the
\* first of its two promises to settle; a settlement that comes when the
\* race is decided finds it settled and reaches nobody
PromiseRace(decided, continuation) ==
  IF decided THEN UNCHANGED program ELSE continuation

\* how the network call may settle: a response that is ok, with its body, or
\* one that is not (fetchWeatherData throws on it)
NetworkOutcomes ==
  {[ok |-> TRUE, data |-> Mild], [ok |-> TRUE, data |-> Freezing],
   [ok |-> FALSE, data |-> Mild]}

\* fetchWeatherData resumed by the settlement of the network call
NetworkSettles(call, outcome, readOk) ==
  IF outcome.ok THEN Responded(call, outcome.data, TRUE, readOk)
  ELSE Rejected(call, "API Error", readOk)

\* fetchWeatherData resumed by the timer of fetchWithTimeout
TimerRejects(call, readOk) == Rejected(call, "Request timeout", readOk)

\* the network call settles before the timer fires
NetworkWins(call, outcome, readOk) ==
  /\ call \in pending
  /\ PromiseRace(FALSE, NetworkSettles(call, outcome, readOk))
  /\ late' = late \cup {[call |-> call, loser |-> "timer"]}

\* the timer fires before the network call settles
TimerWins(call, readOk) ==
  /\ call \in pending
  /\ PromiseRace(FALSE, TimerRejects(call, readOk))
  /\ late' = late \cup {[call |-> call, loser |-> "network"]}

\* the loser of a decided race settles: the response arrives after the
\* timeout, or the timer fires after the network call settled
LoserSettles(l) ==
  /\ l \in late
  /\ IF l.loser = "network"
       THEN \E outcome \in NetworkOutcomes, readOk \in BOOLEAN :
              PromiseRace(TRUE, NetworkSettles(l.call, outcome, readOk))
       ELSE \E readOk \in BOOLEAN : PromiseRace(TRUE, TimerRejects(l.call, readOk))
  /\ late' = late \ {l}

NextRace ==
  \/ GetCurrentLocation(TRUE)
  \/ \E position \in Positions : PositionAcquired(position)
  \/ refreshWeather
  \/ \E call \in pending, outcome \in NetworkOutcomes, readOk \in ReadOutcomes :
       NetworkWins(call, outcome, readOk)
  \/ \E call \in pending, readOk \in ReadOutcomes : TimerWins(call, readOk)
  \/ \E l \in late : LoserSettles(l)
  \/ \E timer \in retryTimers : RetryTimerFires(timer)

SpecRace == Init /\ [][NextRace]_vars

(* ------------------------------------------------------------------ *)
(* C16                                                                  *)
(* ------------------------------------------------------------------ *)
\* C16: the settlement of the loser of a decided race changes neither the
\* reading, the cache, the history, the metrics, the retry counter nor the
\* error, and it sets no retry timer and starts no call.
LoserChangesNothing ==
  [][\A l \in late :
       LoserSettles(l)
         => UNCHANGED <<weather, cacheStore, weatherHistory, apiCallCount,
                        dataUsage, lastUpdate, retryCount, retryTimers, error,
                        pending, alerts, notifications>>]_vars

\* a response won its race and was applied, and every timer of a decided race
\* has fired since without a failure or a retry
LosersSettledReached ==
  /\ apiCallCount >= 1 /\ pending = {} /\ late = {}
  /\ weather # Null /\ error = NoError
  /\ retryCount = 0 /\ retryTimers = {}

(* ------------------------------------------------------------------ *)
(* The periodic refresh under the power policy                          *)
(* ------------------------------------------------------------------ *)
NextTick ==
  \/ GetCurrentLocation(TRUE)
  \/ \E position \in Positions : PositionAcquired(position)
  \/ handleOnline
  \/ handleOffline
  \/ AutoRefreshTick
  \/ ToggleBatteryOptimized
  \/ \E minutes \in Minutes : SetRefreshInterval(minutes)
  \/ VisibilityChange
  \/ \E call \in pending : FetchResponded(call, Mild, TRUE, TRUE)

SpecTick == Init /\ [][NextTick]_vars

\* the calls a step starts
Started == pending' \ pending

(* ------------------------------------------------------------------ *)
(* C17                                                                  *)
(* ------------------------------------------------------------------ *)
\* C17: a tick of the refresh interval that comes while the page is hidden
\* and battery optimization is on starts no call and changes nothing; every
\* other tick starts exactly one call, of the periodic kind, first attempt,
\* with the coordinates of the current location.
TickFollowsPowerPolicy ==
  [][AutoRefreshTick =>
       IF batteryOptimized /\ documentHidden
         THEN UNCHANGED vars
         ELSE /\ apiCallCount' = apiCallCount + 1
              /\ Cardinality(Started) = 1
              /\ \A call \in Started :
                   /\ call.isAutoRefresh
                   /\ call.lat = location.lat /\ call.lon = location.lon
                   /\ call.delays = <<>>
              /\ UNCHANGED <<weather, cacheStore, weatherHistory, retryCount,
                             retryTimers, error, location>>]_vars

\* a periodic call was started, and now the page is hidden with battery
\* optimization on while the interval keeps ticking
SkippedTickReached ==
  /\ HasLocation /\ isOnline
  /\ batteryOptimized /\ documentHidden
  /\ \E call \in pending : call.isAutoRefresh

(* ------------------------------------------------------------------ *)
(* C18                                                                  *)
(* ------------------------------------------------------------------ *)
\* a position has been stored
LocationExists == location.lat # JsNull /\ location.lon # JsNull

\* C18: whenever the device comes back online and a position has been
\* stored, whatever its latitude and longitude, a call with these
\* coordinates is started; when none has been stored, no call is started.
OnlineRestartsWithLastKnown ==
  [][handleOnline =>
       IF LocationExists
         THEN \E call \in Started :
                call.lat = location.lat /\ call.lon = location.lon
         ELSE Started = {}]_vars

(* ------------------------------------------------------------------ *)
(* C19                                                                  *)
(* ------------------------------------------------------------------ *)
\* PositionError.code: PERMISSION_DENIED, POSITION_UNAVAILABLE, TIMEOUT
LocationErrorCodes == 1..3

\* a step in which a geolocation failure is handled: the provider rejects
\* with the code, or (code 0) the device has no geolocation
LocationFails(code) ==
  IF code = 0 THEN GetCurrentLocation(FALSE) ELSE handleLocationError(code)

\* the message the failure leaves on the screen
SurfacedMessage(code) ==
  IF code = 0 THEN "Geolocation not supported on this device"
  ELSE LocationErrorMessage(code)

\* locating, with the cycles locating starts
NextLocate ==
  \/ \E supported \in BOOLEAN : GetCurrentLocation(supported)
  \/ \E position \in Positions : PositionAcquired(position)
  \/ \E code \in 1..4 : handleLocationError(code)
  \/ \E call \in pending, message \in FailureMessages, readOk \in ReadOutcomes :
       FetchRejected(call, message, readOk)
  \/ \E call \in pending, writeOk \in BOOLEAN :
       FetchResponded(call, Mild, writeOk, TRUE)
  \/ \E timer \in retryTimers : RetryTimerFires(timer)

SpecLocate == Init /\ [][NextLocate]_vars

\* C19: a geolocation failure (denied, unavailable, timed out, unsupported)
\* is shown at once as the error, with a message no other kind of failure
\* gives; it starts no call, schedules no retry and leaves the retry counter,
\* the cache and the history unchanged.
LocationFailureSurfacedWithoutFetch ==
  [][\A code \in {0} \cup LocationErrorCodes :
       LocationFails(code) =>
         /\ error'.text # "" /\ error'.detail = ""
         /\ ~loading'
         /\ \A other \in ({0} \cup LocationErrorCodes) \ {code} :
              error'.text # SurfacedMessage(other)
         /\ UNCHANGED <<apiCallCount, pending, retryTimers, retryCount,
                        cacheStore, weatherHistory, weather, location>>]_vars

\* a denied location request is on the screen while a retry of an earlier
\* cycle is still scheduled
LocationDeniedReached ==
  /\ error = Err(LocationErrorMessage(1))
  /\ retryCount = 1 /\ retryTimers # {}
  /\ ~locating /\ ~loading

(* ------------------------------------------------------------------ *)
(* C20                                                                  *)
(* ------------------------------------------------------------------ *)
\* the reading of the cache throws when the retries are exhausted
ExhaustsUnreadable(call) == Exhausts(call, FALSE)

\* the transport returns a valid body and the writes to localStorage throw
SucceedsUnwritable(call, data) ==
  validateWeatherData(data) /\ FetchResponded(call, data, FALSE, FALSE)

\* C20: a failure of storage is never fatal. When the read of the cache
\* throws at exhaustion, the cycle ends with the unavailable-service error as
\* for a cache miss. When the writes throw during a successful fetch, the
\* fetched body still becomes the reading, its entry is put at the head of
\* the history in memory, and the cycle ends in success: no error, the retry
\* counter at 0, no retry scheduled.
StorageFailureIsNotFatal ==
  /\ [][\A call \in pending :
          ExhaustsUnreadable(call) =>
            /\ error'.text = "Weather service unavailable"
            /\ retryTimers' = retryTimers
            /\ call \notin pending']_vars
  /\ [][\A call \in pending, data \in Payloads :
          SucceedsUnwritable(call, data) =>
            /\ weather' = Some(data)
            /\ weatherHistory' # <<>>
            /\ Head(weatherHistory') = newEntry(data, now)
            /\ cacheStore' = cacheStore
            /\ error' = NoError
            /\ retryCount' = 0
            /\ retryTimers' = retryTimers
            /\ call \notin pending']_vars

(* ------------------------------------------------------------------ *)
(* Notifications on a platform that may refuse the constructor          *)
(* ------------------------------------------------------------------ *)
NextNotifyFails ==
  \/ GetCurrentLocation(TRUE)
  \/ PositionAcquired([lat |-> JsNum(14), lon |-> JsNum(121)])
  \/ refreshWeather
  \/ \E answer \in Answers : requestNotificationPermission(answer)
  \/ ToggleEncryption
  \/ \E call \in pending : FetchResponded(call, Mild, TRUE, TRUE)
  \/ \E call \in pending : FetchRespondedNotificationThrows(call, Mild, TRUE, TRUE)
  \/ \E call \in pending, message \in FailureMessages :
       FetchRejected(call, message, TRUE)
  \/ \E timer \in retryTimers : RetryTimerFires(timer)

SpecNotifyFails == InitNotify /\ [][NextNotifyFails]_vars

(* ------------------------------------------------------------------ *)
(* C21                                                                  *)
(* ------------------------------------------------------------------ *)
\* C21: when raising a notification fails during a fetch whose payload was
\* valid, the failure is swallowed: the payload is the reading, no error is
\* shown, the retry counter is not incremented and no retry is scheduled.
NotificationFailureSwallowed ==
  [][\A call \in pending :
       FetchRespondedNotificationThrows(call, Mild, TRUE, TRUE)
         => /\ weather' = Some(Mild)
            /\ error' = NoError
            /\ retryCount' = retryCount
            /\ retryTimers' = retryTimers]_vars

(* ------------------------------------------------------------------ *)
(* Synchronization cycles and their overlap                             *)
(* ------------------------------------------------------------------ *)
NextCycles ==
  \/ GetCurrentLocation(TRUE)
  \/ \E position \in Positions : PositionAcquired(position)
  \/ AutoRefreshTick
  \/ refreshWeather
  \/ \E call \in pending, message \in FailureMessages, readOk \in ReadOutcomes :
       FetchRejected(call, message, readOk)
  \/ \E call \in pending, data \in Payloads :
       \E writeOk \in WriteOutcomes(data), readOk \in ReadOutcomes :
         FetchResponded(call, data, writeOk, readOk)
  \/ \E timer \in retryTimers : RetryTimerFires(timer)
  \/ \E instant \in Instants : TimePasses(instant)

SpecCycles == Init /\ [][NextCycles]_vars

(* ------------------------------------------------------------------ *)
(* C22                                                                  *)
(* ------------------------------------------------------------------ *)
\* a step in which the transport returns a valid body for the call
ValidResponse(call, data) ==
  /\ validateWeatherData(data)
  /\ \E writeOk \in BOOLEAN, readOk \in BOOLEAN :
       FetchResponded(call, data, writeOk, readOk)

\* C22: apiCallCount and dataUsage never decrease.  apiCallCount grows by
\* exactly one in every step that invokes the transport, first attempts and
\* retries alike, and in no other step.  dataUsage changes only in a step in
\* which the transport returned a valid body, and in every such step it
\* grows by the size of that body.
MetricsOnlyGrow ==
  /\ [][apiCallCount' >= apiCallCount /\ dataUsage' >= dataUsage]_vars
  /\ [][apiCallCount' - apiCallCount = Cardinality(Started)]_vars
  /\ [][\A timer \in retryTimers :
          RetryTimerFires(timer) => apiCallCount' = apiCallCount + 1]_vars
  /\ [][dataUsage' # dataUsage =>
          \E call \in pending, data \in Payloads :
            ValidResponse(call, data)
              /\ dataUsage' = dataUsage + ResponseSize(data)]_vars
  /\ [][\A call \in pending, data \in Payloads :
          ValidResponse(call, data) =>
            dataUsage' = dataUsage + ResponseSize(data)]_vars

\* three attempts were made, one of them a retry, and two of them brought
\* the same valid body
MetricsGrownReached ==
  /\ apiCallCount = 3
  /\ Len(weatherHistory) = 2
  /\ \A i \in 1..2 : weatherHistory[i].temperature = Mild.temp
  /\ dataUsage = ResponseSize(Mild) + ResponseSize(Mild)
  /\ pending = {} /\ retryTimers = {}

(* ------------------------------------------------------------------ *)
(* C23                                                                  *)
(* ------------------------------------------------------------------ *)
\* the attempts and the scheduled retries of the cycles that have not ended
Unfinished == pending \cup retryTimers

\* each retry of the cycle was scheduled with the counter further on than
\* the retry before it
Advancing(delays) ==
  \A i \in 1..(Len(delays) - 1) : delays[i] < delays[i + 1]

\* C23: every cycle comes to its end, alone or overlapped by other cycles,
\* and none retries forever: from one failure of a cycle to its next the
\* retry counter has advanced towards maxRetries, so that the cycle is over
\* before it has scheduled maxRetries retries.
EveryCycleEnds ==
  \A x \in Unfinished : Advancing(x.delays) /\ Len(x.delays) < maxRetries

(* ------------------------------------------------------------------ *)
(* C24                                                                  *)
(* ------------------------------------------------------------------ *)
\* the failed attempts of the call's cycle, the call's own failure included
OwnFailures(call) == Len(call.delays) + 1

\* C24: the retry count is the cycle's own.  A failing attempt is the last of
\* its cycle (it schedules no retry: the cycle is exhausted) exactly when it
\* is the cycle's maxRetries-th failed attempt, whatever other cycles did in
\* between.
RetryCountIsPerCycle ==
  [][\A call \in pending, readOk \in BOOLEAN :
       AttemptFails(call, readOk)
         => (retryTimers' = retryTimers <=> OwnFailures(call) = maxRetries)]_vars

(* ------------------------------------------------------------------ *)
(* C25                                                                  *)
(* ------------------------------------------------------------------ *)
\* the latitude, the longitude and the trigger kind of a call or a timer
Target(x) == <<x.lat, x.lon, x.isAutoRefresh>>

\* C25: a retry is made with the latitude, longitude and trigger kind of the
\* failed attempt that scheduled it: the timer a failing attempt sets carries
\* those of the attempt, and the call the timer starts carries those of the
\* timer, one retry further on in the same cycle.
RetryKeepsTarget ==
  /\ [][\A timer \in retryTimers' \ retryTimers :
          \E call \in pending \ pending' :
            /\ Target(timer) = Target(call)
            /\ Len(timer.delays) = Len(call.delays) + 1]_vars
  /\ [][\A timer \in retryTimers :
          RetryTimerFires(timer) =>
            /\ Cardinality(Started) = 1
            /\ \A call \in Started :
                 Target(call) = Target(timer) /\ call.delays = timer.delays]_vars

\* a retry is in flight with the coordinates of the attempt that failed,
\* while the location has changed since
RetryOfSupersededReached ==
  \E call \in pending :
    /\ call.delays # <<>>
    /\ <<call.lat, call.lon>> # <<location.lat, location.lon>>

Written(data) == Some([timestamp |-> now, data |-> data])

\* what a step does is the same whether a read of the cache would throw or
\* not: the step does not read the cache
ReadsNoCacheOnSuccess ==
  [][\A call \in pending, data \in Payloads, writeOk \in BOOLEAN :
       validateWeatherData(data) =>
         (FetchResponded(call, data, writeOk, TRUE)
            <=> FetchResponded(call, data, writeOk, FALSE))]_vars
ReadsNoCacheBeforeExhaustion ==
  [][\A call \in pending :
       retryCount + 1 < maxRetries =>
         (AttemptFails(call, TRUE) <=> AttemptFails(call, FALSE))]_vars

\* C27 as claimed: after every fetch that returned a valid body the cache
\* record is that body, stored at the instant of the write, whatever was
\* there before; and the cache is read at exhaustion only.
CacheHoldsEverySuccess ==
  /\ [][\A call \in pending, data \in Payloads :
          ValidResponse(call, data) => cacheStore' = Written(data)]_vars
  /\ ReadsNoCacheOnSuccess
  /\ ReadsNoCacheBeforeExhaustion

\* C27 amended: after every fetch that returned a valid body and whose write
\* to storage did not throw, the cache record is that body, stored at the
\* instant of the write, whatever was there before; when the write throws,
\* the record is left as it was.  The cache is read at exhaustion only.
CacheHoldsEveryWrittenSuccess ==
  /\ [][\A call \in pending, data \in Payloads, readOk \in BOOLEAN :
          validateWeatherData(data) =>
            /\ FetchResponded(call, data, TRUE, readOk)
                 => cacheStore' = Written(data)
            /\ FetchResponded(call, data, FALSE, readOk)
                 => cacheStore' = cacheStore]_vars
  /\ ReadsNoCacheOnSuccess
  /\ ReadsNoCacheBeforeExhaustion

\* two bodies were accepted one after the other and the cache holds the later
CacheOverwrittenReached ==
  /\ Len(weatherHistory) = 2
  /\ weatherHistory[2].temperature = Mild.temp
  /\ weatherHistory[1].temperature = Sparse.temp
  /\ cacheStore = Written(Sparse)

(* ------------------------------------------------------------------ *)
(* C28                                                                  *)
(* ------------------------------------------------------------------ *)
\* the kinds of the alerts of the last evaluation
KindsOf(got) == {got[i].type : i \in 1..Len(got)}

\* C28: the evaluation of a snapshot without main.humidity gives no humidity
\* alert and the one of a snapshot without main.pressure no pressure alert;
\* it completes (the alerts array is there) and the checks on the other
\* fields give their alerts exactly when they fire.
AbsentFieldsAreSkipped ==
  alerts # Null =>
    LET data == weather[1]
        kinds == KindsOf(alerts[1])
        others == {"cold", "heat", "wind"}
                    \cup (IF data.humidity = JsUndef THEN {} ELSE {"humidity"})
                    \cup (IF data.pressure = JsUndef THEN {} ELSE {"pressure"})
    IN /\ data.humidity = JsUndef => "humidity" \notin kinds
       /\ data.pressure = JsUndef => "pressure" \notin kinds
       /\ \A kind \in others : kind \in kinds <=> Fires(data, kind)

\* a snapshot of 45 degrees and high wind, without humidity and pressure, was
\* evaluated: a heat and a wind alert and no other
AbsentFieldsEvaluatedReached ==
  /\ alerts # Null
  /\ weather[1].humidity = JsUndef /\ weather[1].pressure = JsUndef
  /\ KindsOf(alerts[1]) = {"heat", "wind"}

(* ------------------------------------------------------------------ *)
(* Failures under granted notifications                                 *)
(* ------------------------------------------------------------------ *)
NextSilent ==
  \/ \E supported \in BOOLEAN : GetCurrentLocation(supported)
  \/ PositionAcquired([lat |-> JsNum(14), lon |-> JsNum(121)])
  \/ \E code \in 1..4 : handleLocationError(code)
  \/ requestNotificationPermission("granted")
  \/ ToggleEncryption
  \/ refreshWeather
  \/ \E call \in pending, message \in FailureMessages, readOk \in ReadOutcomes :
       FetchRejected(call, message, readOk)
  \/ \E call \in pending, data \in Payloads, readOk \in ReadOutcomes :
       FetchResponded(call, data, TRUE, readOk)
  \/ \E timer \in retryTimers : RetryTimerFires(timer)

SpecSilent == Init /\ [][NextSilent]_vars

(* ------------------------------------------------------------------ *)
(* C29                                                                  *)
(* ------------------------------------------------------------------ *)
\* a step that handles a failure of the geolocation request
LocationErrorStep ==
  \/ GetCurrentLocation(FALSE)
  \/ \E code \in 1..4 : handleLocationError(code)

\* C29: a failed attempt that leaves retries remaining changes no error
\* message and raises no notification; a step brings an error message to the
\* screen only if it handles a location error or exhausts the retries.
RetriedFailureIsSilent ==
  /\ [][\A call \in pending, readOk \in BOOLEAN :
          (retryCount + 1 < maxRetries /\ AttemptFails(call, readOk))
            => error' = error /\ notifications' = notifications]_vars
  /\ [][(error' # error /\ error'.text # "") =>
          \/ LocationErrorStep
          \/ \E call \in pending, readOk \in BOOLEAN : Exhausts(call, readOk)]_vars

\* notifications are granted and one was raised; then a refresh failed and
\* its retry is scheduled, with nothing shown
SilentRetryReached ==
  /\ notificationsEnabled /\ permission = "granted"
  /\ Len(notifications) = 1
  /\ weather # Null /\ error = NoError
  /\ retryCount = 1 /\ retryTimers # {}

(* ------------------------------------------------------------------ *)
(* C30                                                                  *)
(* ------------------------------------------------------------------ *)
\* the cache holds a record younger than the retention period
CacheLive == cacheStore # Null /\ cacheStore[1].timestamp # 0 /\ CacheAge < OFFLINE_RETENTION

\* C30: a failed attempt with retries remaining changes none of the reading,
\* the cache record, the history, the last-update instant and the data usage.
\* A failed attempt that exhausts the retries changes none of the cache
\* record, the history, the last-update instant and the data usage, and it
\* changes the reading only to the snapshot of a live cache record; the cache
\* read it makes leaves the record in place, expired or not.
FailedAttemptKeepsDataState ==
  /\ [][\A call \in pending, readOk \in BOOLEAN :
          (retryCount + 1 < maxRetries /\ AttemptFails(call, readOk))
            => UNCHANGED <<weather, cacheStore, weatherHistory, lastUpdate,
                           dataUsage>>]_vars
  /\ [][\A call \in pending, readOk \in BOOLEAN :
          Exhausts(call, readOk)
            => /\ UNCHANGED <<cacheStore, weatherHistory, lastUpdate, dataUsage>>
               /\ weather' # weather =>
                    CacheLive /\ weather' = Some(cacheStore[1].data)]_vars

\* the retries were exhausted with an expired record in the cache: the
\* service is reported unavailable and the record is still there
ExpiredRecordKeptReached ==
  /\ error.text = "Weather service unavailable"
  /\ cacheStore = StoredBefore
  /\ ~CacheLive
  /\ retryCount = 0 /\ pending = {} /\ retryTimers = {}

(* ------------------------------------------------------------------ *)
(* C31                                                                  *)
(* ------------------------------------------------------------------ *)
\* the calls that are not periodic and await the transport
AwaitingNonPeriodic == {call \in pending : ~call.isAutoRefresh}

\* a step in which a call of fetchWeatherData settles
Settled == pending \ pending'

\* C31: isRefreshing is true only while a call that is not periodic awaits
\* the transport, and every step in which a call settles, whatever its
\* outcome and kind, leaves isRefreshing false; so it is false whenever no
\* call is awaiting, during a backoff wait and after exhaustion.
RefreshingOnlyWhileAwaiting ==
  /\ [](isRefreshing => AwaitingNonPeriodic # {})
  /\ [][Settled # {} => ~isRefreshing']_vars

\* a periodic call failed and waits for its retry while a call that is not
\* periodic still awaits the transport: the indicator is already off
IndicatorOffDuringBackoffReached ==
  /\ ~isRefreshing
  /\ AwaitingNonPeriodic # {}
  /\ \E timer \in retryTimers : timer.isAutoRefresh

====
